---------------------------- MODULE Spec2Model ----------------------------
(***************************************************************************)
(* Forest walking simulator: the per-frame update loop (movement, gravity, *)
(* tree collisions, world bounds, ground contact), the key handlers and    *)
(* the world generator's rejection sampling.                               *)
(*                                                                         *)
(* Numbers.  JavaScript numbers are modelled in fixed point:               *)
(*   - lengths in hundredths of a world unit (SCALE per unit);             *)
(*   - vertical velocity in hundredths of a unit per second;               *)
(*   - performance.now() differences in ticks of 1/TICK second;            *)
(*   - angles in quarter turns (PI/2), where sin and cos are exact;        *)
(*   - THREE.Clock deltas in the time of one quarter turn at              *)
(*     rotationSpeed (PI/4 second).                                        *)
(* The IEEE value NaN is the sentinel NaN; every arithmetic operator and   *)
(* comparison below propagates it as IEEE arithmetic does.                 *)
(***************************************************************************)
EXTENDS Integers, Sequences, FiniteSets, TLC

VARIABLES variant, trees, waterSurface, isLocked, movementState, velocity,
          position, character, rotation, elapsed, frame, frameLog, last,
          landedSinceJump, pure, forest, wind, held

vars == <<variant, trees, waterSurface, isLocked, movementState, velocity,
          position, character, rotation, elapsed, frame, frameLog, last,
          landedSinceJump, pure, forest, wind, held>>

---------------------------------------------------------------------------
(* Units *)
SCALE == 100
TICK == 10

(* Program constants *)
WORLD_SIZE == 1000
TREE_COUNT == 400
UNDERGROWTH_COUNT == 600
CHARACTER_SPEED == 150
CHARACTER_HEIGHT == 170
GRAVITY == 30
JUMP_FORCE == 10
CHARACTER_RADIUS == 100
CENTER_EXCLUSION == 10

(* Bounds of the model *)
MaxFrames == 2
MaxPlaced == 2

---------------------------------------------------------------------------
(* IEEE arithmetic with NaN *)
NaN == -99999999

IsNaN(a) == a = NaN

Add(a, b) == IF IsNaN(a) \/ IsNaN(b) THEN NaN ELSE a + b

Sub(a, b) == IF IsNaN(a) \/ IsNaN(b) THEN NaN ELSE a - b

Mul(a, b) == IF IsNaN(a) \/ IsNaN(b) THEN NaN ELSE a * b

Lt(a, b) == ~IsNaN(a) /\ ~IsNaN(b) /\ a < b

Gt(a, b) == ~IsNaN(a) /\ ~IsNaN(b) /\ a > b

Abs(a) == IF IsNaN(a) THEN NaN ELSE IF a < 0 THEN -a ELSE a

(* Quotient rounded toward zero; 0/0 is NaN. *)
Quot(a, b) ==
  IF IsNaN(a) \/ IsNaN(b) THEN NaN
  ELSE IF b = 0 THEN NaN
  ELSE IF (a < 0) = (b < 0) THEN Abs(a) \div Abs(b)
  ELSE -(Abs(a) \div Abs(b))

(* a * b / c in one rounding *)
MulQuot(a, b, c) == Quot(Mul(a, b), c)

RECURSIVE SqrtBits(_, _, _)
SqrtBits(n, r, bit) ==
  IF bit = 0 THEN r
  ELSE IF r + bit <= n \div (r + bit) THEN SqrtBits(n, r + bit, bit \div 2)
  ELSE SqrtBits(n, r, bit \div 2)

(* Math.sqrt of a non-negative number, rounded down *)
Sqrt(n) == IF IsNaN(n) THEN NaN ELSE SqrtBits(n, 0, 32768)

Max(a, b) == IF a >= b THEN a ELSE b

(* Math.sqrt(dx * dx + dz * dz), in 1/PREC of a hundredth.  Model values   *)
(* are 32-bit: the root is taken to 1/PREC while both legs are within      *)
(* NEAR, to a whole hundredth while both are within FAR, and beyond FAR    *)
(* the larger leg stands for the distance, a lower bound that is above     *)
(* every length the program compares a distance with (a reach of two       *)
(* radii, the spawn circle's radius).                                      *)
PREC == 100
NEAR == 300
FAR == 2000

Distance(dx, dz) ==
  IF IsNaN(dx) \/ IsNaN(dz) THEN NaN
  ELSE IF Abs(dx) > FAR \/ Abs(dz) > FAR THEN PREC * Max(Abs(dx), Abs(dz))
  ELSE IF Abs(dx) > NEAR \/ Abs(dz) > NEAR
       THEN PREC * Sqrt(dx * dx + dz * dz)
  ELSE Sqrt((dx * dx + dz * dz) * PREC * PREC)

(* Number(flag): true -> 1, false -> 0, undefined -> NaN *)
Number(state, field) ==
  IF field \in DOMAIN state THEN (IF state[field] THEN 1 ELSE 0) ELSE NaN

(* Math.sin and Math.cos at a whole number of quarter turns *)
QuarterOf(a) == ((a % 4) + 4) % 4

Sin(a) == CASE QuarterOf(a) = 0 -> 0 [] QuarterOf(a) = 1 -> 1
            [] QuarterOf(a) = 2 -> 0 [] QuarterOf(a) = 3 -> -1

Cos(a) == CASE QuarterOf(a) = 0 -> 1 [] QuarterOf(a) = 1 -> 0
            [] QuarterOf(a) = 2 -> -1 [] QuarterOf(a) = 3 -> 0

---------------------------------------------------------------------------
(* physics.js *)

Tree(x, z, r) == [x |-> x, z |-> z, radius |-> r]

(* One iteration of the loop of checkTreeCollisions and the iterations     *)
(* after it: the first tree closer than radius + tree.radius pushes the    *)
(* position out along the line from its centre and ends the loop.          *)
RECURSIVE CollideFrom(_, _, _, _)
CollideFrom(pos, radius, ts, i) ==
  IF i > Len(ts)
  THEN [collided |-> FALSE, x |-> pos.x, y |-> pos.y, z |-> pos.z,
        examined |-> Len(ts)]
  ELSE LET treePos == ts[i]
           dx == Sub(pos.x, treePos.x)
           dz == Sub(pos.z, treePos.z)
           distance == Distance(dx, dz)
           reach == radius + ts[i].radius
       IN IF Lt(distance, PREC * reach)
          THEN [collided |-> TRUE,
                x |-> Add(treePos.x, MulQuot(Mul(dx, PREC), reach, distance)),
                y |-> pos.y,
                z |-> Add(treePos.z, MulQuot(Mul(dz, PREC), reach, distance)),
                examined |-> i]
          ELSE CollideFrom(pos, radius, ts, i + 1)

checkTreeCollisionsReversed(pos, radius, ts) ==
  LET r == CollideFrom(pos, radius,
                       [i \in 1..Len(ts) |-> ts[Len(ts) + 1 - i]], 1)
  IN [r EXCEPT !.examined = IF r.collided THEN Len(ts) + 1 - @ ELSE @]

checkTreeCollisionsOntoGround(pos, radius, ts) ==
  LET r == CollideFrom(pos, radius, ts, 1)
  IN [r EXCEPT !.y = IF r.collided THEN 0 ELSE @]

checkTreeCollisions(pos, radius, ts) == CollideFrom(pos, radius, ts, 1)

(* isInWater: |x - water.x| < WORLD_SIZE / 6 and the same for z, compared  *)
(* without rounding the sixth.                                             *)
isInWater(pos, water) ==
  IF ~water.exists THEN FALSE
  ELSE /\ Lt(Mul(6, Abs(Sub(pos.x, water.x))), WORLD_SIZE * SCALE)
       /\ Lt(Mul(6, Abs(Sub(pos.z, water.z))), WORLD_SIZE * SCALE)

createWaterAtOrigin == [exists |-> TRUE, x |-> 0, z |-> 0]

(* environment.js createWater: the surface sits at (0, -0.5, -WORLD_SIZE/4) *)
createWater == [exists |-> TRUE, x |-> 0, z |-> -((WORLD_SIZE * SCALE) \div 4)]

---------------------------------------------------------------------------
(* World generator: the test that rejects a sampled point *)
RejectedCircleOnly(x, z) ==
  Lt(Distance(x, z), PREC * CENTER_EXCLUSION * SCALE)

Rejected(x, z) ==
  \/ Lt(Distance(x, z), PREC * CENTER_EXCLUSION * SCALE)
  \/ /\ 6 * Abs(z + (WORLD_SIZE * SCALE) \div 4) < WORLD_SIZE * SCALE
     /\ 6 * Abs(x) < WORLD_SIZE * SCALE

---------------------------------------------------------------------------
(* The movement integrator: the steps the frame loops share *)

Vec(x, y, z) == [x |-> x, y |-> y, z |-> z]

(* velocity.y -= GRAVITY * delta *)
applyGravity(vy, delta) == vy - (GRAVITY * SCALE * delta) \div TICK

(* position.y += velocity.y * delta *)
applyVerticalVelocity(y, vy, delta) == Add(y, Quot(vy * delta, TICK))

stepLengthNeverHalved(pos, water, delta) ==
  (CHARACTER_SPEED * SCALE * delta) \div TICK

(* speed = CHARACTER_SPEED, halved in water; the distance covered in delta *)
stepLength(pos, water, delta) ==
  IF isInWater(pos, water)
  THEN (CHARACTER_SPEED * SCALE * delta) \div (2 * TICK)
  ELSE (CHARACTER_SPEED * SCALE * delta) \div TICK

(* Vector3.normalize of (x, 0, z), components in 1/UNIT: divideScalar by   *)
(* length() || 1, so a NaN length divides by 1.                            *)
UNIT == 1000
DIAGONAL == 707

normalize(x, z) ==
  IF IsNaN(x) \/ IsNaN(z) THEN [x |-> Mul(x, UNIT), z |-> Mul(z, UNIT)]
  ELSE IF x # 0 /\ z # 0 THEN [x |-> x * DIAGONAL, z |-> z * DIAGONAL]
  ELSE [x |-> x * UNIT, z |-> z * UNIT]

(* Keep the position within world bounds; a comparison with NaN is false *)
clampAxis(v) ==
  LET worldHalfSize == (WORLD_SIZE * SCALE) \div 2
  IN IF Lt(v, -worldHalfSize) THEN -worldHalfSize
     ELSE IF Gt(v, worldHalfSize) THEN worldHalfSize
     ELSE v

groundContactNoSnap(y, vy, canJump, stand) ==
  [y |-> y, vy |-> 0, canJump |-> TRUE, landed |-> Lt(y, stand)]

groundContactNoJump(y, vy, canJump, stand) ==
  IF Lt(y, stand)
  THEN [y |-> stand, vy |-> 0, canJump |-> canJump, landed |-> TRUE]
  ELSE [y |-> y, vy |-> vy, canJump |-> canJump, landed |-> FALSE]

groundContactKeepsVelocity(y, vy, canJump, stand) ==
  IF Lt(y, stand)
  THEN [y |-> stand, vy |-> vy, canJump |-> TRUE, landed |-> TRUE]
  ELSE [y |-> y, vy |-> vy, canJump |-> canJump, landed |-> FALSE]

groundContactBounces(y, vy, canJump, stand) ==
  IF Lt(y, stand)
  THEN [y |-> stand, vy |-> -vy, canJump |-> TRUE, landed |-> TRUE]
  ELSE [y |-> y, vy |-> vy, canJump |-> canJump, landed |-> FALSE]

(* Check if character is on the ground *)
groundContact(y, vy, canJump, stand) ==
  IF Lt(y, stand)
  THEN [y |-> stand, vy |-> 0, canJump |-> TRUE, landed |-> TRUE]
  ELSE [y |-> y, vy |-> vy, canJump |-> canJump, landed |-> FALSE]

(* a % b of JavaScript: the sign of the dividend *)
JsRem(a, b) == IF a >= 0 THEN a % b ELSE -((-a) % b)

(* character.js updateCharacterRotation; 2 * PI is FULL_TURN quarter turns *)
FULL_TURN == 4

updateCharacterRotation(rot, state, delta) ==
  LET left == IF state.turnLeft THEN rot + delta ELSE rot
      right == IF state.turnRight THEN left - delta ELSE left
  IN JsRem(right, FULL_TURN)

(* PointerLockControls.moveRight / moveForward with the camera at its      *)
(* initial orientation: position.addScaledVector(v, distance) with         *)
(* v = (1, 0, 0) and v = (0, 0, -1).                                       *)
addScaledVector(pos, v, distance) ==
  Vec(Add(pos.x, Mul(v.x, distance)),
      Add(pos.y, Mul(v.y, distance)),
      Add(pos.z, Mul(v.z, distance)))

moveRight(pos, distance) == addScaledVector(pos, Vec(1, 0, 0), distance)

moveForward(pos, distance) == addScaledVector(pos, Vec(0, 0, -1), distance)

---------------------------------------------------------------------------
(* The frame loops.  variant names the loop that is running:               *)
(*   "core"  src/core.js          third person, turn-based, not gated      *)
(*   "main"  src/main.js          first person, strafe-based, gated        *)
(*           (src/unnamed/part_001 repeats its movement block)            *)
(*   "gated" src/character.js:293 strafe-based loop reading movementState  *)

Variants == {"core", "main", "gated"}

FirstPerson == {"main", "gated"}

(* The flags each variant declares *)
StateFields(v) ==
  IF v \in {"core", "gated"}
  THEN {"moveForward", "moveBackward", "turnLeft", "turnRight", "canJump"}
  ELSE {"moveForward", "moveBackward", "moveLeft", "moveRight", "canJump"}

(* The flag a key code sets, by the switch of the variant's handlers *)
FlagOf(v, code) ==
  CASE code \in {"ArrowUp", "KeyW"} -> "moveForward"
    [] code \in {"ArrowDown", "KeyS"} -> "moveBackward"
    [] code \in {"ArrowLeft", "KeyA"} ->
         IF v \in {"core", "gated"} THEN "turnLeft" ELSE "moveLeft"
    [] code \in {"ArrowRight", "KeyD"} ->
         IF v \in {"core", "gated"} THEN "turnRight" ELSE "moveRight"
    [] OTHER -> "none"

standHeight(v) == IF v = "core" THEN CHARACTER_HEIGHT \div 2 ELSE CHARACTER_HEIGHT

(* What the last event did, for the properties that speak of one step *)
Event(kind, processed, delta, start, moved, hit, preY, landed) ==
  [kind |-> kind, processed |-> processed, delta |-> delta, start |-> start,
   moved |-> moved, hit |-> hit, preY |-> preY, landed |-> landed]

(* core.js animate, lines 205-227: the horizontal velocity of the frame,   *)
(* from the flags and the facing angle                                     *)
turnVelocity(state, angle, pos, water, moveDelta) ==
  LET dirZ == Sub(Number(state, "moveForward"), Number(state, "moveBackward"))
      len == stepLength(pos, water, moveDelta)
  IN IF dirZ # 0
     THEN [x |-> Sin(angle) * dirZ * len, z |-> Cos(angle) * dirZ * len]
     ELSE [x |-> 0, z |-> 0]

(* main.js animate, lines 409-430: the horizontal velocity of the frame,   *)
(* from the flags, along the camera's axes                                 *)
strafeVelocity(state, pos, water, moveDelta) ==
  LET dirZ == Sub(Number(state, "moveForward"), Number(state, "moveBackward"))
      dirX == Sub(Number(state, "moveRight"), Number(state, "moveLeft"))
      dir == normalize(dirX, dirZ)
      len == stepLength(pos, water, moveDelta)
  IN IF dirX # 0 \/ dirZ # 0
     THEN [x |-> MulQuot(dir.x, len, UNIT), z |-> MulQuot(dir.z, len, UNIT)]
     ELSE [x |-> 0, z |-> 0]

(* Gravity, vertical move and ground contact of one frame *)
verticalStep(y, vy, canJump, moveDelta, stand) ==
  LET v == applyGravity(vy, moveDelta)
      fallen == applyVerticalVelocity(y, v, moveDelta)
      ground == groundContact(fallen, v, canJump, stand)
  IN [y |-> ground.y, vy |-> ground.vy, canJump |-> ground.canJump,
      landed |-> ground.landed, preY |-> fallen]

(* core.js animate, lines 198-263: the movement block *)
coreMovement(dt, cdelta) ==
  LET moveDelta == elapsed + dt
      v == turnVelocity(movementState, rotation, position, waterSurface,
                        moveDelta)
      vx == v.x
      vz == v.z
      vy == applyGravity(velocity.y, moveDelta)
      moved == Vec(Add(position.x, vx),
                   applyVerticalVelocity(position.y, vy, moveDelta),
                   Add(position.z, vz))
      hit == checkTreeCollisions(moved, CHARACTER_RADIUS, trees)
      ground == groundContact(hit.y, vy, movementState.canJump,
                              standHeight("core"))
      final == Vec(clampAxis(hit.x), ground.y, clampAxis(hit.z))
  IN [velocity |-> Vec(vx, ground.vy, vz),
      position |-> final,
      character |-> final,
      canJump |-> ground.canJump,
      rotation |-> updateCharacterRotation(rotation, movementState, cdelta),
      elapsed |-> 0,
      log |-> <<"gravity", "input", "move", "fall", "collide", "clamp",
                "ground">>,
      event |-> Event("frame", TRUE, moveDelta, position, moved,
                      hit.collided, hit.y, ground.landed)]

(* main.js animate, lines 402-461, and its copies in part_001 and          *)
(* character.js: the movement block, run when controls.isLocked            *)
firstPersonMovement(dt) ==
  LET moveDelta == elapsed + dt
      v == strafeVelocity(movementState, position, waterSurface, moveDelta)
      vx == v.x
      vz == v.z
      moved == moveForward(moveRight(position, vx), vz)
      body == Vec(moved.x, Sub(moved.y, CHARACTER_HEIGHT), moved.z)
      hit == checkTreeCollisions(moved, CHARACTER_RADIUS, trees)
      vy == applyGravity(velocity.y, moveDelta)
      fallen == applyVerticalVelocity(hit.y, vy, moveDelta)
      ground == groundContact(fallen, vy, movementState.canJump,
                              standHeight("main"))
  IN [velocity |-> Vec(vx, ground.vy, vz),
      position |-> Vec(clampAxis(hit.x), ground.y, clampAxis(hit.z)),
      character |-> body,
      canJump |-> ground.canJump,
      rotation |-> rotation,
      elapsed |-> 0,
      log |-> <<"gravity", "input", "move", "collide", "clamp", "fall",
                "ground">>,
      event |-> Event("frame", TRUE, moveDelta, position, moved,
                      hit.collided, fallen, ground.landed)]

skippedMovementResetsClock(dt) ==
  [velocity |-> velocity, position |-> position, character |-> character,
   canJump |-> movementState.canJump, rotation |-> rotation,
   elapsed |-> 0, log |-> <<>>,
   event |-> Event("frame", FALSE, dt, position, position, FALSE,
                   position.y, FALSE)]

(* A frame whose movement block is skipped (controls not locked): dt goes *)
(* by and prevTime stays, so the time since prevTime grows by dt          *)
skippedMovement(dt) ==
  [velocity |-> velocity, position |-> position, character |-> character,
   canJump |-> movementState.canJump, rotation |-> rotation,
   elapsed |-> elapsed + dt, log |-> <<>>,
   event |-> Event("frame", FALSE, dt, position, position, FALSE,
                   position.y, FALSE)]

Commit(out, before, after) ==
  /\ velocity' = out.velocity
  /\ position' = out.position
  /\ character' = out.character
  /\ movementState' = [movementState EXCEPT !.canJump = out.canJump]
  /\ rotation' = out.rotation
  /\ elapsed' = out.elapsed
  /\ frameLog' = before \o out.log \o after
  /\ last' = out.event
  /\ frame' = frame + 1
  /\ landedSinceJump' = (landedSinceJump \/ out.event.landed)
  /\ UNCHANGED <<variant, trees, waterSurface, isLocked, pure, forest, wind,
                 held>>

DeltaSet == {0, 1, 40}
ClockSet == {0, 1}

animateCoreWindLate(dt, cdelta) ==
  /\ variant = "core"
  /\ frame < MaxFrames
  /\ Commit(coreMovement(dt, cdelta), <<>>, <<"wind", "render">>)

(* src/core.js animate *)
animateCore(dt, cdelta) ==
  /\ variant = "core"
  /\ frame < MaxFrames
  /\ Commit(coreMovement(dt, cdelta), <<"wind">>, <<"render">>)

(* src/main.js animate *)
animateMain(dt) ==
  /\ variant = "main"
  /\ frame < MaxFrames
  /\ Commit(IF isLocked THEN firstPersonMovement(dt) ELSE skippedMovement(dt),
            <<>>, <<"render">>)

(* src/character.js animate (the loop at lines 368-450) *)
animateGated(dt) ==
  /\ variant = "gated"
  /\ frame < MaxFrames
  /\ Commit(IF isLocked THEN firstPersonMovement(dt) ELSE skippedMovement(dt),
            <<"wind">>, <<"render">>)

---------------------------------------------------------------------------
(* Key handlers *)

Codes == {"KeyW", "KeyA", "KeyS", "KeyD", "Space", "ArrowUp"}

(* Between frames: no frame has just ended *)
NoEvent ==
  Event("none", FALSE, 0, Vec(0, 0, 0), Vec(0, 0, 0), FALSE, 0, FALSE)

keyDownSwitchAlwaysJump(code) ==
  IF code = "Space"
  THEN /\ velocity' = [velocity EXCEPT !.y = JUMP_FORCE * SCALE]
       /\ movementState' = [movementState EXCEPT !.canJump = FALSE]
       /\ last' = NoEvent
       /\ landedSinceJump' = FALSE
  ELSE /\ movementState' =
            [movementState EXCEPT ![FlagOf(variant, code)] = TRUE]
       /\ last' = NoEvent
       /\ UNCHANGED <<velocity, landedSinceJump>>

(* The switch of onKeyDown *)
keyDownSwitch(code) ==
  IF code = "Space"
  THEN /\ velocity' = IF movementState.canJump
                      THEN [velocity EXCEPT !.y = JUMP_FORCE * SCALE]
                      ELSE velocity
       /\ movementState' = [movementState EXCEPT !.canJump = FALSE]
       /\ last' = NoEvent
       /\ landedSinceJump' = (landedSinceJump /\ ~movementState.canJump)
  ELSE /\ movementState' =
            [movementState EXCEPT ![FlagOf(variant, code)] = TRUE]
       /\ last' = NoEvent
       /\ UNCHANGED <<velocity, landedSinceJump>>

keyUpSwitchStops(code) ==
  /\ movementState' =
       IF code = "Space" THEN movementState
       ELSE [movementState EXCEPT ![FlagOf(variant, code)] = FALSE]
  /\ velocity' = Vec(0, 0, 0)
  /\ last' = NoEvent
  /\ UNCHANGED landedSinceJump

(* The switch of onKeyUp *)
keyUpSwitch(code) ==
  /\ movementState' =
       IF code = "Space" THEN movementState
       ELSE [movementState EXCEPT ![FlagOf(variant, code)] = FALSE]
  /\ last' = NoEvent
  /\ UNCHANGED <<velocity, landedSinceJump>>

ignoredKey ==
  /\ last' = NoEvent
  /\ UNCHANGED <<movementState, velocity, landedSinceJump>>

(* What no key handler writes *)
KeyRest ==
  UNCHANGED <<variant, trees, waterSurface, isLocked, position, character,
              rotation, elapsed, frame, frameLog, pure, forest,
              wind>>

KeyFrame == KeyRest /\ UNCHANGED held

(* src/core.js onKeyDown: processed whether or not the pointer is locked *)
onKeyDown(code) ==
  /\ variant = "core"
  /\ keyDownSwitch(code)
  /\ KeyFrame

(* src/core.js onKeyUp *)
onKeyUp(code) ==
  /\ variant = "core"
  /\ keyUpSwitch(code)
  /\ KeyFrame

(* main.js, character.js, part_001 onKeyDown: only when controls.isLocked *)
onKeyDownLocked(code) ==
  /\ variant \in FirstPerson
  /\ IF isLocked THEN keyDownSwitch(code) ELSE ignoredKey
  /\ KeyFrame

(* main.js, character.js, part_001 onKeyUp: only when controls.isLocked *)
onKeyUpLocked(code) ==
  /\ variant \in FirstPerson
  /\ IF isLocked THEN keyUpSwitch(code) ELSE ignoredKey
  /\ KeyFrame

(* controls.lock() / unlock(), and core.js onPointerLockChange *)
pointerLockChange(locked) ==
  /\ isLocked # locked
  /\ isLocked' = locked
  /\ last' = NoEvent
  /\ UNCHANGED <<variant, trees, waterSurface, movementState, velocity,
                 position, character, rotation, elapsed, frame, frameLog,
                 landedSinceJump, pure, forest, wind, held>>

---------------------------------------------------------------------------
(* The state after init() *)

(* Trees createForest can have placed, the ones near the paths walked here *)
Forest ==
  <<Tree(0, 1500, 70), Tree(50, -1600, 60), Tree(0, -1000, 70),
    Tree(30, 2050, 60), Tree(49950, 0, 70)>>

NoPure == [op |-> "none"]
NoForest == [phase |-> "none"]
NoWind == [phase |-> "none"]

Init ==
  /\ variant \in Variants
  /\ trees = Forest
  /\ waterSurface = createWater
  /\ isLocked = FALSE
  /\ movementState = [f \in StateFields(variant) |-> FALSE]
  /\ velocity = Vec(0, 0, 0)
  /\ position = IF variant = "core" THEN Vec(0, CHARACTER_HEIGHT \div 2, 0)
                ELSE Vec(0, CHARACTER_HEIGHT, 5 * SCALE)
  /\ character = IF variant \in {"core", "gated"}
                 THEN Vec(0, CHARACTER_HEIGHT \div 2, 0)
                 ELSE Vec(0, CHARACTER_HEIGHT, 0)
  /\ rotation = 0
  /\ elapsed = 0
  /\ frame = 0
  /\ frameLog = <<>>
  /\ last = NoEvent
  /\ landedSinceJump = FALSE
  /\ pure = NoPure
  /\ forest = NoForest
  /\ wind = NoWind
  /\ held = {}

Next ==
  \/ \E dt \in DeltaSet, cdelta \in ClockSet : animateCore(dt, cdelta)
  \/ \E dt \in DeltaSet : animateMain(dt)
  \/ \E dt \in DeltaSet : animateGated(dt)
  \/ \E code \in Codes : onKeyDown(code)
  \/ \E code \in Codes : onKeyUp(code)
  \/ \E code \in Codes : onKeyDownLocked(code)
  \/ \E code \in Codes : onKeyUpLocked(code)
  \/ \E locked \in BOOLEAN : pointerLockChange(locked)

Spec == Init /\ [][Next]_vars

---------------------------------------------------------------------------
(* The keyboard.  held is the set of keys that are down: a keydown event   *)
(* (also an auto-repeat of a key that is down) adds its key, a keyup event *)
(* of a key that is down removes it, and the document's listeners run      *)
(* onKeyDown and onKeyUp of the variant, which return at once while the    *)
(* controls of a first-person variant are not locked.                      *)

KeyCodes == {"KeyW", "ArrowUp", "KeyD"}

Listening == variant = "core" \/ isLocked

keyPressed(code) ==
  /\ held' = held \cup {code}
  /\ IF Listening THEN keyDownSwitch(code) ELSE ignoredKey
  /\ KeyRest

keyReleased(code) ==
  /\ code \in held
  /\ held' = held \ {code}
  /\ IF Listening THEN keyUpSwitch(code) ELSE ignoredKey
  /\ KeyRest

NextKeys ==
  \/ \E code \in KeyCodes : keyPressed(code)
  \/ \E code \in KeyCodes : keyReleased(code)
  \/ \E locked \in BOOLEAN : pointerLockChange(locked)
  \/ animateCore(1, 0)
  \/ animateMain(1)
  \/ animateGated(1)

SpecKeys == Init /\ [][NextKeys]_vars

---------------------------------------------------------------------------
(* Jumps.  The frame loops run for as long as the page is open: these      *)
(* frames are the animate callbacks above without the count of frames.     *)
(* While the controls of a first-person variant are unlocked the callbacks *)
(* skip the movement block and the time since prevTime grows, here up to   *)
(* MaxPause.                                                               *)

MaxPause == 1

JumpDeltas == {1, 4}

JumpCodes == {"Space", "KeyW"}

Run(out, before, after) ==
  /\ velocity' = out.velocity
  /\ position' = out.position
  /\ character' = out.character
  /\ movementState' = [movementState EXCEPT !.canJump = out.canJump]
  /\ rotation' = out.rotation
  /\ elapsed' = out.elapsed
  /\ frameLog' = before \o out.log \o after
  /\ last' = out.event
  /\ landedSinceJump' = (landedSinceJump \/ out.event.landed)
  /\ UNCHANGED <<variant, trees, waterSurface, isLocked, frame, pure, forest,
                 wind, held>>

(* A callback that runs the movement block *)
processedFrame(dt) ==
  /\ Listening
  /\ Run(IF variant = "core" THEN coreMovement(dt, 1)
         ELSE firstPersonMovement(dt),
         IF variant = "main" THEN <<>> ELSE <<"wind">>, <<"render">>)

(* A callback that skips it *)
skippedFrame(dt) ==
  /\ ~Listening
  /\ elapsed + dt <= MaxPause
  /\ Run(skippedMovement(dt),
         IF variant = "main" THEN <<>> ELSE <<"wind">>, <<"render">>)

NextJump ==
  \/ \E dt \in JumpDeltas : processedFrame(dt)
  \/ \E dt \in JumpDeltas : skippedFrame(dt)
  \/ \E code \in JumpCodes : onKeyDown(code)
  \/ \E code \in JumpCodes : onKeyUp(code)
  \/ \E code \in JumpCodes : onKeyDownLocked(code)
  \/ \E code \in JumpCodes : onKeyUpLocked(code)
  \/ \E locked \in BOOLEAN : pointerLockChange(locked)

(* The loops in which a jump can begin: in the loop of character.js the    *)
(* first movement block leaves position.y NaN, no frame makes ground       *)
(* contact and canJump stays false                                         *)
InitJump == Init /\ variant \in {"core", "main"}

SpecJump == InitJump /\ [][NextJump]_vars

---------------------------------------------------------------------------
(* The functions of the frame step, applied to inputs drawn from bounded   *)
(* sets: pure holds one call, its arguments and, once run, its result.     *)

Call(op, arg) == [op |-> op, arg |-> arg, done |-> FALSE, out |-> <<>>]

(* Collision inputs: positions around two overlapping trees *)
Offsets == {-171, -170, -169, -136, -102, -100, -1, 0, 1, 100, 102, 136,
            169, 170, 171, 250}
TreeA == Tree(2000, 0, 70)
TreeB == Tree(2100, 0, 50)
TreeFar == Tree(-30000, 40000, 83)
TreeLists == {<<TreeA, TreeB>>, <<TreeB, TreeA>>, <<TreeFar, TreeA, TreeB>>,
              <<TreeFar>>, <<>>}

CollideCalls ==
  {Call("collide", [pos |-> Vec(TreeA.x + dx, CHARACTER_HEIGHT, TreeA.z + dz),
                    ts |-> ts]) :
     dx \in Offsets, dz \in Offsets, ts \in TreeLists}

(* Collision inputs at the world's edge: positions after the move, inside  *)
(* and beyond the bounds, around a tree half a unit from x = WORLD_SIZE/2  *)
TreeEdge == Tree(49950, 0, 70)
EdgeXs == {49790, 49900, 49950, 49980, 50000, 50080, 50200}
EdgeZs == {-150, 0, 60}

BoundsCalls ==
  {Call("bounds", [pos |-> Vec(x, CHARACTER_HEIGHT \div 2, z),
                   ts |-> <<TreeEdge>>]) :
     x \in EdgeXs, z \in EdgeZs}

(* Vertical inputs *)
Heights == {84, 85, 86, 169, 170, 171, 240}
Speeds == {-300, 0, 300, 1000}
Deltas == {0, 1, 2}

GroundCalls ==
  {Call("ground", [y |-> y, vy |-> vy, canJump |-> c, delta |-> d,
                   stand |-> standHeight(v)]) :
     y \in Heights, vy \in Speeds, c \in BOOLEAN, d \in Deltas,
     v \in {"core", "main"}}

(* Horizontal inputs: positions inside, outside and on the edge of the     *)
(* water footprint, and the position a zero-distance collision leaves      *)
NoWater == [exists |-> FALSE, x |-> 0, z |-> 0]
WaterXs == {-16667, -16666, 0, 16666, 16667, NaN}
WaterZs == {-41667, -41666, -25000, -8334, -8333, 0}

Flags(v) == [StateFields(v) -> BOOLEAN]

TurnCalls ==
  {Call("turn", [state |-> st, angle |-> a, delta |-> d, water |-> w,
                 pos |-> Vec(x, CHARACTER_HEIGHT \div 2, IF x = NaN THEN NaN ELSE z)]) :
     st \in {f \in Flags("core") : ~f.turnLeft /\ ~f.turnRight /\ ~f.canJump},
     a \in {-1, 0, 1, 2}, d \in Deltas, w \in {createWater, NoWater},
     x \in WaterXs, z \in {-41667, -25000, 0}}

StrafeCalls ==
  {Call("strafe", [state |-> st, delta |-> d, water |-> w,
                   pos |-> Vec(0, CHARACTER_HEIGHT, z)]) :
     st \in {f \in Flags("main") : ~f.canJump},
     d \in Deltas, w \in {createWater, NoWater}, z \in WaterZs}

PureVars == <<variant, trees, waterSurface, isLocked, movementState,
              velocity, position, character, rotation, elapsed, frame,
              frameLog, last, landedSinceJump, forest, wind, held>>

(* physics.js checkTreeCollisions *)
callCollide ==
  /\ pure.op = "collide" /\ ~pure.done
  /\ pure' = [pure EXCEPT !.done = TRUE,
                !.out = checkTreeCollisions(pure.arg.pos, CHARACTER_RADIUS,
                                            pure.arg.ts)]
  /\ UNCHANGED PureVars

(* core.js animate, lines 242-250: checkTreeCollisions, then the clamp to  *)
(* the world bounds                                                        *)
collideAndClamp(pos, radius, ts) ==
  LET hit == checkTreeCollisions(pos, radius, ts)
  IN [collided |-> hit.collided, x |-> clampAxis(hit.x), y |-> hit.y,
      z |-> clampAxis(hit.z), examined |-> hit.examined]

callBounds ==
  /\ pure.op = "bounds" /\ ~pure.done
  /\ pure' = [pure EXCEPT !.done = TRUE,
                !.out = collideAndClamp(pure.arg.pos, CHARACTER_RADIUS,
                                        pure.arg.ts)]
  /\ UNCHANGED PureVars

(* gravity and ground contact of a frame *)
callGround ==
  /\ pure.op = "ground" /\ ~pure.done
  /\ pure' = [pure EXCEPT !.done = TRUE,
                !.out = verticalStep(pure.arg.y, pure.arg.vy,
                                     pure.arg.canJump, pure.arg.delta,
                                     pure.arg.stand)]
  /\ UNCHANGED PureVars

(* horizontal velocity of a frame, turn-based *)
callTurn ==
  /\ pure.op = "turn" /\ ~pure.done
  /\ pure' = [pure EXCEPT !.done = TRUE,
                !.out = turnVelocity(pure.arg.state, pure.arg.angle,
                                     pure.arg.pos, pure.arg.water,
                                     pure.arg.delta)]
  /\ UNCHANGED PureVars

(* horizontal velocity of a frame, strafe-based *)
callStrafe ==
  /\ pure.op = "strafe" /\ ~pure.done
  /\ pure' = [pure EXCEPT !.done = TRUE,
                !.out = strafeVelocity(pure.arg.state, pure.arg.pos,
                                       pure.arg.water, pure.arg.delta)]
  /\ UNCHANGED PureVars

Idle ==
  /\ variant = "core"
  /\ trees = <<>>
  /\ waterSurface = createWater
  /\ isLocked = FALSE
  /\ movementState = [f \in StateFields("core") |-> FALSE]
  /\ velocity = Vec(0, 0, 0)
  /\ position = Vec(0, CHARACTER_HEIGHT \div 2, 0)
  /\ character = Vec(0, CHARACTER_HEIGHT \div 2, 0)
  /\ rotation = 0
  /\ elapsed = 0
  /\ frame = 0
  /\ frameLog = <<>>
  /\ last = NoEvent
  /\ landedSinceJump = FALSE
  /\ held = {}

InitPure ==
  /\ Idle
  /\ forest = NoForest
  /\ wind = NoWind
  /\ pure \in CollideCalls \cup BoundsCalls \cup GroundCalls \cup TurnCalls
               \cup StrafeCalls

NextPure == callCollide \/ callBounds \/ callGround \/ callTurn \/ callStrafe

SpecPure == InitPure /\ [][NextPure]_vars

---------------------------------------------------------------------------
(* The world generator: createForest, then createUndergrowth.  The loops   *)
(* run to TREE_COUNT and UNDERGROWTH_COUNT; the model runs them to at most  *)
(* MaxPlaced items each.                                                   *)

Min(a, b) == IF a <= b THEN a ELSE b

treeCount == Min(TREE_COUNT, MaxPlaced)
undergrowthCount == Min(UNDERGROWTH_COUNT, MaxPlaced)

Point(x, z) == [x |-> x, z |-> z]

(* Values of Math.random() * WORLD_SIZE - WORLD_SIZE / 2, to the nearest   *)
(* hundredth: the spawn circle, the lake's edges and the world's corners   *)
Samples ==
  {Point(0, 0), Point(600, 800), Point(599, 800), Point(0, -25000),
   Point(16667, -25000), Point(16666, -8334), Point(0, -8333),
   Point(0, -41666), Point(-16667, -41666), Point(50000, 50000),
   Point(-50000, 49999)}

(* scale = 0.5 + Math.random() * 0.7, in hundredths *)
Scales == {100}

(* radius: 0.7 * scale *)
collisionRadius(scale) == (7 * scale) \div 10

ForestVars == <<variant, trees, waterSurface, isLocked, movementState,
                velocity, position, character, rotation, elapsed, frame,
                frameLog, last, landedSinceJump, pure, wind, held>>

createForestStepDiscards(p, scale) ==
  /\ forest.phase = "trees"
  /\ forest.i < treeCount
  /\ forest' =
       IF Rejected(p.x, p.z)
       THEN [forest EXCEPT !.sample = p, !.accepted = FALSE, !.i = @ + 1,
               !.retried = TRUE]
       ELSE [forest EXCEPT !.sample = p, !.accepted = TRUE, !.i = @ + 1,
               !.trees = Append(@, Tree(p.x, p.z, collisionRadius(scale)))]
  /\ UNCHANGED ForestVars

(* One iteration of the loop of createForest; retried remembers that some  *)
(* sample of the run was rejected ("i--; continue")                        *)
createForestStep(p, scale) ==
  /\ forest.phase = "trees"
  /\ forest.i < treeCount
  /\ forest' =
       IF Rejected(p.x, p.z)
       THEN [forest EXCEPT !.sample = p, !.accepted = FALSE,
               !.retried = TRUE]
       ELSE [forest EXCEPT !.sample = p, !.accepted = TRUE, !.i = @ + 1,
               !.trees = Append(@, Tree(p.x, p.z, collisionRadius(scale)))]
  /\ UNCHANGED ForestVars

(* createForest returns; init() calls createUndergrowth *)
createForestDone ==
  /\ forest.phase = "trees"
  /\ forest.i >= treeCount
  /\ forest' = [forest EXCEPT !.phase = "undergrowth", !.i = 0,
                  !.undergrowth = <<>>]
  /\ UNCHANGED ForestVars

(* One iteration of the loop of createUndergrowth *)
createUndergrowthStep(p) ==
  /\ forest.phase = "undergrowth"
  /\ forest.i < undergrowthCount
  /\ forest' =
       IF Rejected(p.x, p.z)
       THEN [forest EXCEPT !.sample = p, !.accepted = FALSE,
               !.retried = TRUE]
       ELSE [forest EXCEPT !.sample = p, !.accepted = TRUE, !.i = @ + 1,
               !.undergrowth = Append(@, p)]
  /\ UNCHANGED ForestVars

(* createUndergrowth returns *)
createUndergrowthDone ==
  /\ forest.phase = "undergrowth"
  /\ forest.i >= undergrowthCount
  /\ forest' = [forest EXCEPT !.phase = "done"]
  /\ UNCHANGED ForestVars

InitForest ==
  /\ Idle
  /\ pure = NoPure
  /\ wind = NoWind
  /\ forest = [phase |-> "trees", i |-> 0, trees |-> <<>>,
               undergrowth |-> <<>>, sample |-> Point(0, 0),
               accepted |-> FALSE, retried |-> FALSE]

NextForest ==
  \/ \E p \in Samples, scale \in Scales : createForestStep(p, scale)
  \/ createForestDone
  \/ \E p \in Samples : createUndergrowthStep(p)
  \/ createUndergrowthDone

SpecForest == InitForest /\ [][NextForest]_vars

(* The generator under the assumption that sampling eventually yields a    *)
(* point outside both exclusion zones: the loops are straight-line code    *)
(* that keeps running, and an iteration that accepts its sample is         *)
(* eventually taken.                                                       *)
acceptedTree ==
  \E p \in Samples, scale \in Scales :
    ~Rejected(p.x, p.z) /\ createForestStep(p, scale)

acceptedItem ==
  \E p \in Samples : ~Rejected(p.x, p.z) /\ createUndergrowthStep(p)

SamplingFair ==
  /\ WF_vars(acceptedTree)
  /\ WF_vars(createForestDone)
  /\ WF_vars(acceptedItem)
  /\ WF_vars(createUndergrowthDone)

SpecForestFair == SpecForest /\ SamplingFair

---------------------------------------------------------------------------
(* animation.js: the wind animator.  Its state is the module scope of      *)
(* animation.js (windTime, windDirection, windGustTime, the gust           *)
(* strengths, gustDuration) and the transforms of the scene elements it    *)
(* sways; the frame loops above call it and share none of that state.      *)
(* Units: THREE.Clock deltas and the gust timer in ticks of 1/TICK second, *)
(* windTime and the arguments of sin in hundredths, gust strengths and     *)
(* direction components in hundredths, rotations and offsets in            *)
(* millionths.                                                             *)

WIND_STRENGTH == 30
WIND_SPEED == 5

(* Math.sin of an angle in hundredths of a radian, in hundredths, by       *)
(* Bhaskara's rational approximation on a half period of 314               *)
HALF_PERIOD == 314

sinCenti(a) ==
  IF IsNaN(a) THEN NaN
  ELSE LET t == a % (2 * HALF_PERIOD)
           u == IF t < HALF_PERIOD THEN t ELSE t - HALF_PERIOD
           p == u * (HALF_PERIOD - u)
           h == (16 * p * SCALE) \div (5 * HALF_PERIOD * HALF_PERIOD - 4 * p)
       IN IF t < HALF_PERIOD THEN h ELSE -h

cosCenti(a) == IF IsNaN(a) THEN NaN ELSE sinCenti(a + HALF_PERIOD \div 2)

XYZ(x, y, z) == [x |-> x, y |-> y, z |-> z]

Unset == [set |-> FALSE, x |-> 0, y |-> 0, z |-> 0]

Captured(r) == [set |-> TRUE, x |-> r.x, y |-> r.y, z |-> r.z]

(* effectiveWindStrength = WIND_STRENGTH * (1 + currentGustStrength), in   *)
(* ten-thousandths                                                         *)
effectiveWindStrength(w) == WIND_STRENGTH * (SCALE + w.currentGustStrength)

(* a product of factors in hundredths, scaled back after each factor *)
Scaled(a, b) == Quot(Mul(a, b), SCALE)


(* lines 65-67: targetDirection divided by its length *)
normalizeDirection(dx, dz) ==
  LET length == Distance(dx, dz)
  IN [x |-> Quot(dx * SCALE * PREC, length),
      z |-> Quot(dz * SCALE * PREC, length)]

(* What the Math.random() calls of one gust re-roll return *)
Draw(duration, target, turn, dx, dz) ==
  [duration |-> duration, target |-> target, turn |-> turn,
   dx |-> dx, dz |-> dz]

updateWindParametersAtDuration(w, delta, draw) ==
  LET roll == w.windGustTime >= w.gustDuration
      w1 == IF roll
            THEN [w EXCEPT !.windGustTime = 0,
                           !.gustDuration = draw.duration,
                           !.targetGustStrength = draw.target,
                           !.windDirection =
                              IF draw.turn
                              THEN normalizeDirection(draw.dx, draw.dz)
                              ELSE @,
                           !.rerolled = TRUE]
            ELSE [w EXCEPT !.rerolled = FALSE]
  IN [w1 EXCEPT !.currentGustStrength =
        @ + Quot((w1.targetGustStrength - @) * delta, 2 * TICK)]

(* updateWindParameters(delta), windGustTime already advanced *)
updateWindParameters(w, delta, draw) ==
  LET roll == w.windGustTime > w.gustDuration
      w1 == IF roll
            THEN [w EXCEPT !.windGustTime = 0,
                           !.gustDuration = draw.duration,
                           !.targetGustStrength = draw.target,
                           !.windDirection =
                              IF draw.turn
                              THEN normalizeDirection(draw.dx, draw.dz)
                              ELSE @,
                           !.rerolled = TRUE]
            ELSE [w EXCEPT !.rerolled = FALSE]
  IN [w1 EXCEPT !.currentGustStrength =
        @ + Quot((w1.targetGustStrength - @) * delta, 2 * TICK)]

(* original + sway, on the x and z of a rotation *)
Swayed(original, swayX, swayZ) ==
  XYZ(Add(original.x, swayX), original.y, Add(original.z, swayZ))

(* A child of a tree group: the trunk and branch meshes, the leaf group *)
Child(isMesh, rot) ==
  [isMesh |-> isMesh, original |-> Unset, rotation |-> rot]

(* "Store original rotation if not already stored", then rotation.x and    *)
(* rotation.z = original + sway                                            *)
swayFromOriginal(obj, swayX, swayZ) ==
  LET original == IF obj.original.set THEN obj.original
                  ELSE Captured(obj.rotation)
  IN [obj EXCEPT !.original = original,
                 !.rotation = [Swayed(original, swayX, swayZ)
                                 EXCEPT !.y = obj.rotation.y]]

(* lines 104-106: trunkFactor = 0.02 / treeScale, for a tree of scale 1 *)
trunkSway(w) ==
  LET windStrength == effectiveWindStrength(w)
  IN [x |-> Scaled(Scaled(sinCenti((w.windTime * 5) \div 10),
                          windStrength) * 2, w.windDirection.z),
      z |-> Scaled(Scaled(sinCenti((w.windTime * 4) \div 10),
                          windStrength) * 2, w.windDirection.x)]

(* lines 131-136: branchFactor = 0.08, branchPhaseOffset = i * 0.5 *)
branchSway(w, i) ==
  LET windStrength == effectiveWindStrength(w)
      branchPhaseOffset == i * 50
  IN [x |-> Scaled(Scaled(sinCenti((w.windTime * 7) \div 10
                                     + branchPhaseOffset),
                          windStrength) * 8, w.windDirection.z),
      z |-> Scaled(Scaled(sinCenti((w.windTime * 6) \div 10
                                     + branchPhaseOffset),
                          windStrength) * 8, w.windDirection.x)]

animateTreeTrunksCumulative(w) ==
  IF ~w.registered.leafGroups \/ ~w.tree.attached \/ Len(w.children) = 0
  THEN w
  ELSE LET trunk == w.children[1]
           sway == trunkSway(w)
       IN [w EXCEPT !.children[1] =
             [trunk EXCEPT !.original = Captured(trunk.rotation),
                           !.rotation = Swayed(trunk.rotation, sway.x,
                                               sway.z)]]

(* animateTreeTrunks, for the one leaf group of leafGroups: children[k] of *)
(* the model is tree.children[k - 1] of the code; the branch loop starts   *)
(* at i = 2 and skips a child that is not a mesh                           *)
animateTreeTrunks(w) ==
  IF ~w.registered.leafGroups \/ ~w.tree.attached \/ Len(w.children) = 0
  THEN w
  ELSE [w EXCEPT !.children =
          [k \in 1..Len(w.children) |->
             LET child == w.children[k]
                 i == k - 1
             IN IF i = 0
                THEN swayFromOriginal(child, trunkSway(w).x, trunkSway(w).z)
                ELSE IF i >= 2 /\ child.isMesh
                THEN swayFromOriginal(child, branchSway(w, i).x,
                                      branchSway(w, i).z)
                ELSE child]]

(* The rotation and position animateLeaves computes for the leaf at index  *)
(* 0 of the leaf group                                                     *)
leafPose(w) ==
  LET windStrength == effectiveWindStrength(w)
      windDir == w.windDirection
      leaf == w.leaf
      windFactor == leaf.windFactor
      flutterSpeed == 150 + windFactor \div 2
      flutter == Quot(sinCenti((w.windTime * flutterSpeed) \div SCALE)
                        * windStrength, 10)
      windX == Scaled(Scaled(Scaled(sinCenti(w.windTime), windStrength),
                             windFactor), windDir.x)
      windZ == Scaled(Scaled(Scaled(cosCenti((w.windTime * 7) \div 10),
                                    windStrength), windFactor), windDir.z)
      turbulence ==
        XYZ(Quot(sinCenti((w.windTime * 23) \div 10) * windStrength * 2, 10),
            Quot(sinCenti((w.windTime * 18) \div 10) * windStrength * 15,
                 100),
            Quot(sinCenti((w.windTime * 21) \div 10) * windStrength * 2, 10))
  IN [rotation |->
        XYZ(Add(Add(leaf.originalRotation.x, Mul(windX, 8)),
                turbulence.x + flutter),
            leaf.originalRotation.y + Quot(flutter, 2),
            Add(Add(leaf.originalRotation.z, Mul(windZ, 8)),
                turbulence.z + flutter)),
      position |->
        XYZ(Add(Add(leaf.originalPosition.x, Mul(windX, 30)),
                Quot(turbulence.x, 2)),
            leaf.originalPosition.y
              + sinCenti((w.windTime * 5) \div 10) * 8 * windFactor
              + Quot(turbulence.y, 2),
            Add(Add(leaf.originalPosition.z, Mul(windZ, 30)),
                Quot(turbulence.z, 2)))]

animateLeavesUnguarded(w) ==
  IF ~w.registered.leafGroups THEN w
  ELSE [w EXCEPT !.leaf.rotation = leafPose(w).rotation,
                 !.leaf.position = leafPose(w).position]

(* animateLeaves: the leaf at index 0 of the leaf group; the rotation is   *)
(* written if userData.originalRotation exists, the position if            *)
(* userData.originalPosition exists                                        *)
animateLeaves(w) ==
  IF ~w.registered.leafGroups THEN w
  ELSE [w EXCEPT
          !.leaf.rotation = IF w.leaf.originalRotation.set
                            THEN leafPose(w).rotation ELSE @,
          !.leaf.position = IF w.leaf.originalPosition.set
                            THEN leafPose(w).position ELSE @]

(* What the three Math.random() - 0.5 of one grass blade return *)
Flutter(a, b, c) == [flutter |-> a, x |-> b, z |-> c]

(* An undergrowth item: a grass group (children, with the blade at index   *)
(* 0), a bush mesh, or any other object                                    *)
Item(pos, children, isMesh, blade, rot) ==
  [position |-> pos, children |-> children, isMesh |-> isMesh,
   blade |-> blade, original |-> Unset, rotation |-> rot]

(* One iteration of the loop of animateUndergrowth *)
animateItem(w, item, rnd) ==
  LET windStrength == effectiveWindStrength(w)
      windDir == w.windDirection
      baseWindEffect ==
        Quot(sinCenti((w.windTime * 15) \div 10 + item.position.x \div 10)
               * windStrength * 15, SCALE)
      dirWindEffect == [x |-> Scaled(baseWindEffect, windDir.x),
                        z |-> Scaled(baseWindEffect, windDir.z)]
      flutter == Quot(rnd.flutter * 3 * windStrength, SCALE)
      swayX == Scaled(Scaled(sinCenti((w.windTime * 6) \div 10
                                        + item.position.x \div 20),
                             windStrength) * 3, windDir.z)
      swayZ == Scaled(Scaled(sinCenti((w.windTime * 5) \div 10
                                        + item.position.z \div 20),
                             windStrength) * 3, windDir.x)
  IN IF item.children
     THEN [item EXCEPT
             !.blade = [x |-> Add(rnd.x * 200 + flutter, dirWindEffect.z),
                        z |-> Add(rnd.z * 200 + flutter, dirWindEffect.x)]]
     ELSE IF item.isMesh
     THEN swayFromOriginal(item, swayX, swayZ)
     ELSE item

(* animateUndergrowth: the two items of the undergrowth array *)
animateUndergrowth(w, rnd) ==
  IF ~w.registered.undergrowth THEN w
  ELSE [w EXCEPT !.grass = animateItem(w, w.grass, rnd),
                 !.bush = animateItem(w, w.bush, rnd)]

MaxWindFrames == 2

(* clock.getDelta() in ticks: up to the 6 s of a tab left in the background *)
WindDeltas == {0, 1, 50, 60}
(* 3 + Math.random() * 5 in ticks, Math.random() * 1.5 and                *)
(* Math.random() - 0.5 in hundredths                                       *)
Durations == {30, 79}
Targets == {0, 75, 149}
ComponentsX == {-50, 0, 30}
ComponentsZ == {0, 40}
Flutters == {Flutter(-50, 49, 0), Flutter(49, -50, 30)}

WindVars == <<variant, trees, waterSurface, isLocked, movementState, velocity,
              position, character, rotation, elapsed, frame, frameLog, last,
              landedSinceJump, pure, forest, held>>

advanceWindTimeClamped(w, delta) ==
  [w EXCEPT !.windTime = @ + (IF delta > TICK THEN TICK ELSE delta) * WIND_SPEED,
            !.windGustTime = @ + delta]

(* lines 21-22: windTime += delta * WIND_SPEED; windGustTime += delta *)
advanceWindTime(w, delta) ==
  [w EXCEPT !.windTime = @ + delta * WIND_SPEED,
            !.windGustTime = @ + delta]

(* animateWind(delta, leafGroups, undergrowth, WIND_STRENGTH, WIND_SPEED) *)
animateWind(delta, draw, rnd) ==
  /\ wind.phase = "wind"
  /\ wind.n < MaxWindFrames
  /\ LET w0 == [advanceWindTime(wind, delta) EXCEPT !.n = @ + 1,
                                                    !.delta = delta]
         w1 == updateWindParameters(w0, delta, draw)
     IN wind' = animateUndergrowth(animateLeaves(animateTreeTrunks(w1)), rnd)
  /\ UNCHANGED WindVars

(* The module scope of animation.js at load *)
moduleScope(dx, dz) ==
  [phase |-> "wind", n |-> 0, delta |-> 0, rerolled |-> FALSE,
   windTime |-> 0,
   windDirection |-> [x |-> dx, z |-> dz],
   windGustTime |-> 0,
   currentGustStrength |-> 0,
   targetGustStrength |-> 0,
   gustDuration |-> 50]

(* createNaturalTree: the children of the tree group and the leaf at index *)
(* 0 of its leaf group.  A pine (treeType 0) is [trunk, leafGroup] and its *)
(* leaf layers carry originalRotation but no originalPosition; a deciduous *)
(* tree with two branches is [trunk, branch, branch, leafGroup] and its    *)
(* clusters carry both.  userData.originalRotation is read from the new    *)
(* mesh, whose rotation is (0, 0, 0), and the random tilt is assigned to   *)
(* rotation after it (a pine layer gets no tilt on y).                     *)
createNaturalTree(treeType, tilt) ==
  LET trunk == Child(TRUE, XYZ(0, 250000, 0))
      leafGroup == Child(FALSE, XYZ(0, 0, 0))
      place == XYZ(0, 4000000, 0)
  IN IF treeType = 0
     THEN [children |-> <<trunk, leafGroup>>,
           leaf |-> [windFactor |-> 100,
                     originalRotation |-> Captured(XYZ(0, 0, 0)),
                     originalPosition |-> Unset,
                     rotation |-> XYZ(tilt.x, 0, tilt.z),
                     position |-> place]]
     ELSE [children |-> <<trunk,
                          Child(TRUE, XYZ(0, 100000, 900000)),
                          Child(TRUE, XYZ(300000, 0, -200000)),
                          leafGroup>>,
           leaf |-> [windFactor |-> 100,
                     originalRotation |-> Captured(XYZ(0, 0, 0)),
                     originalPosition |-> Captured(place),
                     rotation |-> tilt,
                     position |-> place]]

(* (Math.random() - 0.5) * 0.2 on each axis, in millionths *)
Tilts == {XYZ(0, 0, 0), XYZ(50000, -30000, 80000)}

Tilted == XYZ(50000, -30000, 80000)

(* What can be missing from a scene handed to animateWind *)
Gaps == {"empty", "orphan", "bare", "uncaptured", "stray"}

(* One tree with its leaf group, a grass tuft and a bush, as createForest  *)
(* and createUndergrowth leave them, less what the gap names: "empty",     *)
(* nothing pushed to leafGroups and undergrowth; "orphan", a leaf group    *)
(* without a parent; "bare", a parent without children; "uncaptured", a    *)
(* leaf without originalRotation and originalPosition; "stray", items that *)
(* are neither a group with children nor a mesh.                           *)
Scene(treeType, tilt, gap) ==
  LET made == createNaturalTree(treeType, tilt)
  IN [registered |-> [leafGroups |-> gap # "empty",
                      undergrowth |-> gap # "empty"],
      tree |-> [position |-> XYZ(0, 0, 1500), radius |-> 70,
                attached |-> gap # "orphan"],
      children |-> IF gap = "bare" THEN <<>> ELSE made.children,
      leaf |-> IF gap = "uncaptured"
               THEN [made.leaf EXCEPT !.originalRotation = Unset,
                                      !.originalPosition = Unset]
               ELSE made.leaf,
      grass |-> Item(XYZ(3000, 0, -2000), gap # "stray", FALSE,
                     [x |-> 0, z |-> 100000], XYZ(0, 0, 0)),
      bush |-> Item(XYZ(-2000, 0, 4000), FALSE, gap # "stray",
                    [x |-> 0, z |-> 0], XYZ(0, 120000, 0))]

(* The module scope of animation.js and a deciduous tree, a grass tuft and *)
(* a bush                                                                  *)
InitWind ==
  /\ Idle
  /\ pure = NoPure
  /\ forest = NoForest
  /\ \E dx \in {-50, 30}, dz \in {0, 40} :
       wind = moduleScope(dx, dz) @@ Scene(1, Tilted, "none")

Scenes ==
  {Scene(treeType, tilt, "none") : treeType \in {0, 1}, tilt \in Tilts}
    \cup {Scene(1, Tilted, gap) : gap \in Gaps}

(* The same module scope over each scene, complete or with a gap *)
InitScene ==
  /\ Idle
  /\ pure = NoPure
  /\ forest = NoForest
  /\ \E scene \in Scenes : wind = moduleScope(30, 40) @@ scene

(* Whether a frame of this delta finds windGustTime > gustDuration *)
Rolls(delta) ==
  wind.phase = "wind" /\ wind.windGustTime + delta > wind.gustDuration

NoDraw == Draw(0, 0, FALSE, 0, 0)

NextWind ==
  \/ \E delta \in WindDeltas, rnd \in Flutters :
       ~Rolls(delta) /\ animateWind(delta, NoDraw, rnd)
  \/ \E delta \in WindDeltas, duration \in Durations, target \in Targets,
        rnd \in Flutters :
       /\ Rolls(delta)
       /\ animateWind(delta, Draw(duration, target, FALSE, 0, 0), rnd)
  \/ \E delta \in WindDeltas, duration \in Durations, target \in Targets,
        dx \in ComponentsX, dz \in ComponentsZ, rnd \in Flutters :
       /\ Rolls(delta)
       /\ animateWind(delta, Draw(duration, target, TRUE, dx, dz), rnd)

SpecWind == InitWind /\ [][NextWind]_vars

SpecScene == InitScene /\ [][NextWind]_vars

(* The session as a whole: the frame loop with its key events, or the wind *)
(* animator over the scene, each from its own initial states               *)
InitWorld == Init \/ InitWind

NextWorld ==
  \/ wind = NoWind /\ Next
  \/ NextWind

SpecWorld == InitWorld /\ [][NextWorld]_vars

---------------------------------------------------------------------------
(* Properties *)

halfWorld == (WORLD_SIZE * SCALE) \div 2

InWorld(v) == ~IsNaN(v) /\ -halfWorld <= v /\ v <= halfWorld

(* C1: in every variant of the frame loop the tracked horizontal position  *)
(* (character in core.js, camera in the first-person loops) satisfies      *)
(* -WORLD_SIZE/2 <= x <= WORLD_SIZE/2 and -WORLD_SIZE/2 <= z <=            *)
(* WORLD_SIZE/2 at the end of each frame.                                  *)
C1_PositionInWorld == InWorld(position.x) /\ InWorld(position.z)

FrameEnded == last.kind = "frame" /\ last.processed

Jump == JUMP_FORCE * SCALE

(* C6: in core.js a Space keydown sets velocity.y to JUMP_FORCE only if    *)
(* canJump is true and always leaves canJump false; canJump becomes true   *)
(* only in a frame whose ground-contact check fires; so every jump is      *)
(* preceded, since the previous jump, by a frame that snapped the          *)
(* character to the stand height, and a Space keydown before the first     *)
(* ground contact leaves the velocity unchanged.                           *)
C6_JumpMachine ==
  [][variant = "core" =>
       /\ onKeyDown("Space") =>
            /\ ~movementState'.canJump
            /\ velocity'.y # velocity.y =>
                 movementState.canJump /\ velocity'.y = Jump
            /\ ~movementState.canJump => velocity' = velocity
            /\ ~landedSinceJump => velocity' = velocity
       /\ (~movementState.canJump /\ movementState'.canJump) =>
            /\ frame' = frame + 1
            /\ last'.landed
            /\ position'.y = standHeight("core")
       /\ (frame' = frame /\ velocity' # velocity) =>
            /\ landedSinceJump
            /\ velocity' = [velocity EXCEPT !.y = Jump]
            /\ ~landedSinceJump']_vars

C6_Jumped ==
  /\ variant = "core"
  /\ velocity.y = Jump
  /\ ~movementState.canJump
  /\ ~landedSinceJump
  /\ frame >= 1
  /\ last = NoEvent

(* C7 as stated: a processed frame that ends with the vertical position <= *)
(* stand height ends with velocity.y == 0 and canJump == true.             *)
C7_AtOrBelowStand ==
  (FrameEnded /\ ~Gt(position.y, standHeight(variant)) /\ ~IsNaN(position.y))
    => (velocity.y = 0 /\ movementState.canJump)

(* C7 amended: a processed frame that ends with the vertical position <=   *)
(* stand height ends exactly at the stand height, and with velocity.y == 0 *)
(* and canJump == true whenever the position after gravity and vertical    *)
(* velocity was strictly below the stand height (the check is <, so a      *)
(* frame that arrives exactly at the stand height keeps both).             *)
C7_GroundContact ==
  (FrameEnded /\ ~Gt(position.y, standHeight(variant)) /\ ~IsNaN(position.y))
    => /\ position.y = standHeight(variant)
       /\ last.preY # standHeight(variant) =>
            (last.landed /\ velocity.y = 0 /\ movementState.canJump)

C7_Snapped ==
  /\ FrameEnded
  /\ last.landed
  /\ last.preY < standHeight(variant)
  /\ velocity.y = 0

Has(name) == \E i \in 1..Len(frameLog) : frameLog[i] = name

At(name) == CHOOSE i \in 1..Len(frameLog) : frameLog[i] = name

(* C10 as stated: within every frame the steps occur in the order read     *)
(* input, movement integration, collision resolution, wind animation,      *)
(* render.                                                                 *)
C10_WindAfterCollision ==
  Has("collide") =>
    /\ Has("wind")
    /\ At("input") < At("move")
    /\ At("move") < At("collide")
    /\ At("collide") < At("wind")
    /\ At("wind") < At("render")

(* C10 amended: within every frame the steps occur in the order wind       *)
(* animation (the loops of core.js and character.js; main.js has none),    *)
(* read input, movement integration, collision resolution, render: the     *)
(* wind animator runs before the movement block and render comes last.     *)
C10_WindFirst ==
  frame >= 1 =>
    /\ At("render") = Len(frameLog)
    /\ variant \in {"core", "gated"} => Has("wind")
    /\ Has("wind") => At("wind") = 1
    /\ Has("collide") =>
         /\ At("input") < At("move")
         /\ At("move") < At("collide")
         /\ At("collide") < At("render")

C10_CoreFrame ==
  /\ variant = "core"
  /\ FrameEnded
  /\ Has("wind")
  /\ Has("collide")


BetweenFrames == frame' = frame

(* C11 as stated: key handlers running between frames change only the     *)
(* input flags, never velocity or position.                                *)
C11_HandlersLeaveVelocity ==
  [][BetweenFrames => (velocity' = velocity /\ position' = position)]_vars

(* C11 amended: between frames position and the horizontal velocity never  *)
(* change, and the only write to velocity is the Space keydown, which sets *)
(* velocity.y to JUMP_FORCE when canJump is true; apart from that the      *)
(* handlers write only the flags and canJump.                              *)
C11_HandlersWriteFlagsAndJump ==
  [][BetweenFrames =>
       /\ position' = position
       /\ character' = character
       /\ rotation' = rotation
       /\ velocity'.x = velocity.x /\ velocity'.z = velocity.z
       /\ velocity'.y # velocity.y =>
            /\ onKeyDown("Space") \/ onKeyDownLocked("Space")
            /\ movementState.canJump
            /\ velocity'.y = Jump]_vars

(* A flag set after a frame of core.js, not yet consumed *)
C11_FlagPending ==
  /\ variant = "core"
  /\ frame = 1
  /\ last = NoEvent
  /\ movementState.moveForward /\ ~movementState.moveBackward
  /\ velocity.x = 0 /\ velocity.z = 0
  /\ velocity.y # 0
  /\ position.x = 0 /\ position.z = 0

FrameStep == frame' = frame + 1

(* C12: in the gated loops (main.js, character.js) a key event delivered   *)
(* while controls.isLocked is false leaves every flag, canJump and         *)
(* velocity unchanged, and a frame run while it is false leaves position,  *)
(* velocity, canJump and prevTime unchanged (the time since prevTime only  *)
(* grows); in core.js key events and frames are processed whether or not   *)
(* the pointer is locked.                                                  *)
C12_LockGate ==
  [][/\ (variant \in FirstPerson /\ ~isLocked /\ BetweenFrames) =>
          /\ movementState' = movementState
          /\ velocity' = velocity
     /\ (variant \in FirstPerson /\ ~isLocked /\ FrameStep) =>
          /\ position' = position
          /\ velocity' = velocity
          /\ movementState' = movementState
          /\ ~last'.processed
          /\ last'.delta \in DeltaSet
          /\ elapsed' = elapsed + last'.delta
     /\ (variant = "core" /\ FrameStep) =>
          /\ last'.processed
          /\ elapsed' = 0
     /\ variant = "core" =>
          \A code \in Codes \ {"Space"} :
            /\ onKeyDown(code) => movementState'[FlagOf("core", code)]
            /\ onKeyUp(code) => ~movementState'[FlagOf("core", code)]]_vars

(* An unlocked frame of main.js that let time pass without moving *)
C12_SkippedFrame ==
  /\ variant = "main"
  /\ ~isLocked
  /\ last.kind = "frame" /\ ~last.processed
  /\ elapsed > 0
  /\ position = Vec(0, CHARACTER_HEIGHT, 5 * SCALE)

(* C13 as stated: after every call of updateCharacterRotation the yaw     *)
(* character.rotation.y lies in [0, 2 * PI).                               *)
C13_RotationInRange == 0 <= rotation /\ rotation < FULL_TURN

---------------------------------------------------------------------------
(* Properties of checkTreeCollisions, over the calls of SpecPure *)

Collided == pure.op = "collide" /\ pure.done

(* Planar distance < radius + tree.radius, from the squares *)
Overlaps(pos, radius, t) ==
  LET dx == pos.x - t.x
      dz == pos.z - t.z
      reach == radius + t.radius
  IN /\ -reach < dx /\ dx < reach
     /\ -reach < dz /\ dz < reach
     /\ dx * dx + dz * dz < reach * reach

Hits == {i \in 1..Len(pure.arg.ts) :
           Overlaps(pure.arg.pos, CHARACTER_RADIUS, pure.arg.ts[i])}

FirstHit == CHOOSE i \in Hits : \A j \in Hits : i <= j

(* C3 as stated: when a tree overlaps the position, the position after     *)
(* checkTreeCollisions is at distance radius + tree.radius from the centre *)
(* of the first overlapping tree (to the rounding of a hundredth) and on   *)
(* the ray from that centre through the original position.                 *)
C3_PushedToContact ==
  (Collided /\ Hits # {}) =>
    LET t == pure.arg.ts[FirstHit]
        reach == CHARACTER_RADIUS + t.radius
        dx == pure.arg.pos.x - t.x
        dz == pure.arg.pos.z - t.z
        ox == pure.out.x - t.x
        oz == pure.out.z - t.z
    IN /\ ~IsNaN(pure.out.x) /\ ~IsNaN(pure.out.z)
       /\ (reach - 2) * (reach - 2) <= ox * ox + oz * oz
       /\ ox * ox + oz * oz <= (reach + 2) * (reach + 2)
       /\ ox * dx + oz * dz > 0
       /\ ox * dz - oz * dx <= 2 * reach
       /\ oz * dx - ox * dz <= 2 * reach

(* C4: checkTreeCollisions returns true iff some tree of the list is at    *)
(* planar distance < radius + tree.radius; when true the loop stopped at   *)
(* the first such tree in list order and the position is what that tree    *)
(* alone makes of it; when false the position is unchanged.                *)
C4_FirstOverlapWins ==
  Collided =>
    /\ pure.out.collided <=> Hits # {}
    /\ pure.out.collided =>
         LET alone == checkTreeCollisions(pure.arg.pos, CHARACTER_RADIUS,
                                          <<pure.arg.ts[FirstHit]>>)
         IN /\ pure.out.examined = FirstHit
            /\ alone.collided
            /\ pure.out.x = alone.x /\ pure.out.z = alone.z
    /\ ~pure.out.collided =>
         /\ pure.out.x = pure.arg.pos.x /\ pure.out.z = pure.arg.pos.z
         /\ pure.out.examined = Len(pure.arg.ts)

(* Two trees overlap the position, the second of the list being the nearer *)
C4_TwoOverlap ==
  /\ Collided
  /\ pure.arg.ts = <<TreeA, TreeB>>
  /\ pure.arg.pos.x = TreeB.x /\ pure.arg.pos.z = TreeB.z + 1
  /\ pure.out.collided /\ pure.out.examined = 1
  /\ pure.out.x > TreeB.x

---------------------------------------------------------------------------
(* Properties of the vertical step, over the calls of SpecPure *)

Grounded == pure.op = "ground" /\ pure.done

(* C8: when the vertical position after gravity and vertical velocity is   *)
(* strictly below the stand height, the step ends exactly at the stand     *)
(* height with velocity.y == 0 and canJump == true; a character at 1.69    *)
(* with stand height 1.7 that is not moving upward ends at 1.7.            *)
C8_SnapToStand ==
  Grounded =>
    LET a == pure.arg
        vy == a.vy - (GRAVITY * SCALE * a.delta) \div TICK
        rise == IF vy >= 0 THEN (vy * a.delta) \div TICK
                ELSE -((-vy * a.delta) \div TICK)
        snapped == /\ pure.out.y = a.stand
                   /\ pure.out.vy = 0
                   /\ pure.out.canJump
    IN /\ pure.out.preY = a.y + rise
       /\ a.y + rise < a.stand => snapped
       /\ (a.y = 169 /\ a.stand = CHARACTER_HEIGHT /\ a.vy <= 0) => snapped

(* The scenario: y = 1.69, falling for a tick, canJump false before *)
C8_Scenario ==
  /\ Grounded
  /\ pure.arg.y = 169 /\ pure.arg.stand = CHARACTER_HEIGHT
  /\ pure.arg.vy = 0 /\ pure.arg.delta = 1 /\ ~pure.arg.canJump
  /\ pure.out.preY < 169
  /\ pure.out.y = CHARACTER_HEIGHT /\ pure.out.vy = 0 /\ pure.out.canJump

---------------------------------------------------------------------------
(* Properties of the horizontal velocity, over the calls of SpecPure *)

Turned == pure.op = "turn" /\ pure.done

InFootprint(pos, water) ==
  /\ water.exists
  /\ ~IsNaN(pos.x) /\ ~IsNaN(pos.z)
  /\ -(WORLD_SIZE * SCALE) < 6 * (pos.x - water.x)
  /\ 6 * (pos.x - water.x) < WORLD_SIZE * SCALE
  /\ -(WORLD_SIZE * SCALE) < 6 * (pos.z - water.z)
  /\ 6 * (pos.z - water.z) < WORLD_SIZE * SCALE

(* C9: the horizontal velocity of a frame of the turn-based loop is a      *)
(* function of the frame's flags, angle, delta and start position alone:   *)
(* zero with neither or both of forward and backward set, and otherwise of *)
(* magnitude CHARACTER_SPEED * dt, halved iff a water surface exists and   *)
(* the start position is strictly within WORLD_SIZE/6 of it on both axes.  *)
C9_VelocityFromFlags ==
  Turned =>
    LET a == pure.arg
        v == pure.out
        full == (CHARACTER_SPEED * SCALE * a.delta) \div TICK
        len == IF InFootprint(a.pos, a.water) THEN full \div 2 ELSE full
    IN IF a.state.moveForward = a.state.moveBackward
       THEN v.x = 0 /\ v.z = 0
       ELSE v.x * v.x + v.z * v.z = len * len

(* Forward in the middle of the lake: half speed *)
C9_HalvedInWater ==
  /\ Turned
  /\ pure.arg.state.moveForward /\ ~pure.arg.state.moveBackward
  /\ pure.arg.water = createWater
  /\ pure.arg.pos.x = 0 /\ pure.arg.pos.z = createWater.z
  /\ pure.arg.angle = 0 /\ pure.arg.delta = 1
  /\ pure.out.x = 0
  /\ 2 * pure.out.z = (CHARACTER_SPEED * SCALE) \div TICK

---------------------------------------------------------------------------
(* Properties of the world generator, over SpecForest *)

(* sqrt(x^2 + z^2) < 10, from the squares *)
InSpawnCircle(p) ==
  LET r == CENTER_EXCLUSION * SCALE
  IN /\ -r < p.x /\ p.x < r
     /\ -r < p.z /\ p.z < r
     /\ p.x * p.x + p.z * p.z < r * r

(* |z + WORLD_SIZE/4| < WORLD_SIZE/6 and |x| < WORLD_SIZE/6 *)
InLake(p) ==
  /\ -(WORLD_SIZE * SCALE) < 6 * p.x /\ 6 * p.x < WORLD_SIZE * SCALE
  /\ -(2 * WORLD_SIZE * SCALE) < 12 * p.z + 3 * WORLD_SIZE * SCALE
  /\ 12 * p.z + 3 * WORLD_SIZE * SCALE < 2 * WORLD_SIZE * SCALE

Placeable(p) == ~(InSpawnCircle(p) \/ InLake(p))

Sampled == forest.phase \in {"trees", "undergrowth"} /\ forest.sample \in Samples
             /\ (forest.accepted \/ forest.i > 0 \/ Len(forest.trees) > 0)

(* C5: a sampled point is placed iff it is neither within 10 of the origin *)
(* nor inside the lake rectangle, so every placed tree and undergrowth     *)
(* item is in the world square, at least 10 from the origin and outside    *)
(* the lake; (0,0) is never placed and (500,500) always is.                *)
C5_PlacedOutsideZones ==
  /\ forest.phase # "none" =>
       /\ \A i \in 1..Len(forest.trees) :
            /\ Placeable(forest.trees[i])
            /\ InWorld(forest.trees[i].x) /\ InWorld(forest.trees[i].z)
       /\ \A i \in 1..Len(forest.undergrowth) :
            /\ Placeable(forest.undergrowth[i])
            /\ InWorld(forest.undergrowth[i].x)
            /\ InWorld(forest.undergrowth[i].z)
  /\ Sampled =>
       /\ forest.accepted <=> Placeable(forest.sample)
       /\ forest.accepted =>
            IF forest.phase = "trees" \/ forest.i = 0
            THEN /\ forest.trees # <<>>
                 /\ forest.trees[Len(forest.trees)].x = forest.sample.x
                 /\ forest.trees[Len(forest.trees)].z = forest.sample.z
            ELSE /\ forest.undergrowth # <<>>
                 /\ forest.undergrowth[Len(forest.undergrowth)] = forest.sample
       /\ forest.sample = Point(0, 0) => ~forest.accepted
       /\ forest.sample = Point(halfWorld, halfWorld) => forest.accepted

(* The undergrowth loop rejects (0,0) after the tree loop placed (500,500) *)
C5_RejectedThenPlaced ==
  /\ forest.phase = "undergrowth"
  /\ Len(forest.trees) = treeCount
  /\ forest.trees[1].x = halfWorld /\ forest.trees[1].z = halfWorld
  /\ forest.i = 1
  /\ forest.sample = Point(0, 0)
  /\ ~forest.accepted

(***************************************************************************)
(* Properties of the wind animator, over the frames of SpecWind             *)
(***************************************************************************)

WindRuns == wind.phase = "wind"

Least(a, b) == IF a <= b THEN a ELSE b

Greatest(a, b) == IF a >= b THEN a ELSE b

(* C14: after every wind frame, whatever its delta, currentGustStrength    *)
(* lies between its value before the frame and the frame's                 *)
(* targetGustStrength, both included, and so stays within [0, 1.5].        *)
C14_GustApproachesTarget ==
  [][WindRuns =>
       /\ Least(wind.currentGustStrength, wind'.targetGustStrength)
            <= wind'.currentGustStrength
       /\ wind'.currentGustStrength
            <= Greatest(wind.currentGustStrength, wind'.targetGustStrength)
       /\ 0 <= wind'.currentGustStrength
       /\ wind'.currentGustStrength <= 150]_vars

(* C15: every animateWind(delta) adds exactly delta * WIND_SPEED to        *)
(* windTime, which therefore never decreases and is never reset.           *)
C15_WindTimeAdvances ==
  [][WindRuns =>
       /\ wind'.windTime = wind.windTime + wind'.delta * WIND_SPEED
       /\ wind'.windTime >= wind.windTime]_vars

(* Two frames of 6 s and 5 s have been animated: windTime passed one       *)
(* period of the sine.                                                     *)
C15_TwoFrames ==
  /\ WindRuns
  /\ wind.n = 2
  /\ wind.delta = 50
  /\ wind.windTime = 110 * WIND_SPEED

(* C16: windDirection is a unit vector in every state of the animator,     *)
(* from the initialisation of the module onward.                           *)
C16_UnitDirection ==
  WindRuns =>
    /\ wind.windDirection.x # NaN
    /\ wind.windDirection.z # NaN
    /\ wind.windDirection.x * wind.windDirection.x
         + wind.windDirection.z * wind.windDirection.z = SCALE * SCALE

(* The frame being taken finds the advanced gust timer above gustDuration  *)
GustExpires == wind.windGustTime + wind'.delta > wind.gustDuration

(* C17: the gust is re-rolled exactly in the frames whose advanced timer   *)
(* strictly exceeds gustDuration: the timer restarts at 0, gustDuration is *)
(* drawn from [3, 8) s and targetGustStrength from [0, 1.5); in any other  *)
(* frame gustDuration, targetGustStrength and windDirection keep their     *)
(* values and the timer keeps the frame's delta. gustDuration is within    *)
(* [3, 8) s in every state.                                                *)
C17_GustReroll ==
  /\ [](WindRuns => 30 <= wind.gustDuration /\ wind.gustDuration < 80)
  /\ [][WindRuns =>
          IF GustExpires
          THEN /\ wind'.windGustTime = 0
               /\ 30 <= wind'.gustDuration /\ wind'.gustDuration < 80
               /\ 0 <= wind'.targetGustStrength
               /\ wind'.targetGustStrength < 150
          ELSE /\ wind'.windGustTime = wind.windGustTime + wind'.delta
               /\ wind'.gustDuration = wind.gustDuration
               /\ wind'.targetGustStrength = wind.targetGustStrength
               /\ wind'.windDirection = wind.windDirection]_vars

(* A frame of 6 s found the timer above the initial gustDuration of 5 s    *)
(* and re-rolled the gust with the largest draws.                          *)
C17_Rerolled ==
  /\ WindRuns
  /\ wind.rerolled
  /\ wind.delta = 60
  /\ wind.windGustTime = 0
  /\ wind.gustDuration = 79
  /\ wind.targetGustStrength = 149

(* The transforms the animator writes from captured originals *)
SwayedTransforms(w) ==
  <<[k \in 1..Len(w.children) |-> w.children[k].rotation],
    w.bush.rotation, w.leaf.rotation, w.leaf.position>>

(* A captured original keeps its value once it is set *)
OriginalsKept ==
  /\ \A k \in 1..Len(wind.children) :
       wind.children[k].original.set =>
         wind'.children[k].original = wind.children[k].original
  /\ wind.bush.original.set => wind'.bush.original = wind.bush.original
  /\ wind'.leaf.originalRotation = wind.leaf.originalRotation
  /\ wind'.leaf.originalPosition = wind.leaf.originalPosition

(* A frame with delta = 0 that follows an earlier wind frame *)
RepeatedFrame == WindRuns /\ wind.n >= 1 /\ wind'.delta = 0

(* C18: as stated, for every leaf, trunk, branch, bush and grass element:  *)
(* a second animateWind with delta = 0 leaves every element transform as   *)
(* the first call left it, and captured originals are never modified.      *)
C18_Stateless ==
  [][WindRuns =>
       /\ OriginalsKept
       /\ RepeatedFrame =>
            /\ SwayedTransforms(wind') = SwayedTransforms(wind)
            /\ wind'.grass.blade = wind.grass.blade]_vars

(* C18, amended: the same for trunks, branches, bushes and leaves; the     *)
(* rotation of a grass blade takes fresh Math.random() draws every frame   *)
(* and is left out.                                                        *)
C18_StatelessButGrass ==
  [][WindRuns =>
       /\ OriginalsKept
       /\ RepeatedFrame =>
            SwayedTransforms(wind') = SwayedTransforms(wind)]_vars

(* A frame of 6 s swayed the trunk away from its captured rotation and a   *)
(* frame with delta = 0 followed it.                                       *)
C18_Repeated ==
  /\ WindRuns
  /\ wind.n = 2
  /\ wind.delta = 0
  /\ wind.windTime = 60 * WIND_SPEED
  /\ wind.children[1].original.set
  /\ wind.children[1].rotation.z # wind.children[1].original.z

(***************************************************************************)
(* Properties of the scene, over the frames and events of SpecWorld         *)
(***************************************************************************)

(* The positions the wind animator could reach through the scene graph *)
Anchored(w) == <<w.tree, w.grass.position, w.bush.position>>

(* The height checkTreeCollisions was given in the frame just taken, and   *)
(* the height the rest of the frame went on with                           *)
HeightKept ==
  IF variant = "core"
  THEN last'.preY = last'.moved.y
  ELSE last'.preY =
         applyVerticalVelocity(last'.moved.y,
                               applyGravity(velocity.y, last'.delta),
                               last'.delta)

(* C19: no frame step, key event, collision resolution or wind frame       *)
(* changes a tree's position or radius; checkTreeCollisions leaves the y   *)
(* of the position it is given; a wind frame leaves the position of every  *)
(* tree and undergrowth item.                                              *)
C19_TreesImmutable ==
  /\ [][trees' = trees]_vars
  /\ [][(FrameStep /\ last'.processed) => HeightKept]_vars
  /\ [][WindRuns => Anchored(wind') = Anchored(wind)]_vars

(* A frame in which a tree pushed the player out while in the air *)
C19_PushedInTheAir ==
  /\ last.kind = "frame"
  /\ last.processed
  /\ last.hit
  /\ ~last.landed
  /\ Gt(last.preY, standHeight(variant))
  /\ Len(trees) > 0

(***************************************************************************)
(* Termination of the world generator, over SpecForestFair                  *)
(***************************************************************************)

(* An iteration that rejected its sample *)
RejectedStep ==
  /\ forest.phase \in {"trees", "undergrowth"}
  /\ forest'.phase = forest.phase
  /\ ~forest'.accepted

(* C20: a rejected sample is retried at the same index, nothing but the    *)
(* sample changing; the loops are left only with treeCount trees and       *)
(* undergrowthCount items, so a run that never accepts never ends; and if  *)
(* sampling eventually yields acceptable points the generator terminates.  *)
C20_RetryThenTerminate ==
  /\ [][RejectedStep =>
          forest' = [forest EXCEPT !.sample = forest'.sample,
                                   !.accepted = FALSE,
                                   !.retried = TRUE]]_vars
  /\ [](forest.phase \in {"undergrowth", "done"} =>
          Len(forest.trees) = treeCount)
  /\ [](forest.phase = "done" =>
          Len(forest.undergrowth) = undergrowthCount)
  /\ <>(forest.phase = "done")

(* Both loops have returned after at least one rejected sample *)
C20_DoneAfterRetry ==
  /\ forest.phase = "done"
  /\ forest.retried
  /\ Len(forest.trees) = treeCount
  /\ Len(forest.undergrowth) = undergrowthCount

(***************************************************************************)
(* Error cases of the frame step, over the frames and events of Spec        *)
(***************************************************************************)

(* The trees whose centre the position moved to in the frame just ended *)
CentresReached ==
  {i \in 1..Len(trees) :
     last.moved.x = trees[i].x /\ last.moved.z = trees[i].z}

(* C21: a frame whose movement ends exactly on a tree centre (distance 0   *)
(* < radius + tree.radius) leaves a well-defined position, unchanged or    *)
(* pushed to radius + tree.radius, that is inside the world square after   *)
(* the clamp.                                                              *)
C21_ZeroDistanceFailsSafe ==
  (FrameEnded /\ last.hit /\ CentresReached # {}) =>
    \E i \in CentresReached :
      LET reach == CHARACTER_RADIUS + trees[i].radius
          ox == position.x - trees[i].x
          oz == position.z - trees[i].z
      IN /\ InWorld(position.x)
         /\ InWorld(position.z)
         /\ \/ ox = 0 /\ oz = 0
            \/ /\ (reach - 2) * (reach - 2) <= ox * ox + oz * oz
               /\ ox * ox + oz * oz <= (reach + 2) * (reach + 2)

(***************************************************************************)
(* Properties of the wind animator over scenes with missing targets and    *)
(* over both tree types, over the frames of SpecScene                      *)
(***************************************************************************)

(* An undergrowth item that is neither a group with children nor a mesh *)
Stray(item) == ~item.children /\ ~item.isMesh

(* C22: a missing animation target is a no-op: a leaf group with no parent *)
(* or whose parent has no first child leaves every child of the tree as it *)
(* was; a leaf without originalRotation keeps its rotation and one without *)
(* originalPosition keeps its position; an item that is neither a group    *)
(* with children nor a mesh is unchanged; with empty leafGroups and        *)
(* undergrowth no transform changes, and the wind state advances all the   *)
(* same.                                                                   *)
C22_MissingTargetsNoOp ==
  [][WindRuns =>
       /\ (~wind.tree.attached \/ Len(wind.children) = 0)
            => wind'.children = wind.children
       /\ ~wind.leaf.originalRotation.set
            => wind'.leaf.rotation = wind.leaf.rotation
       /\ ~wind.leaf.originalPosition.set
            => wind'.leaf.position = wind.leaf.position
       /\ Stray(wind.grass) => wind'.grass = wind.grass
       /\ Stray(wind.bush) => wind'.bush = wind.bush
       /\ ~wind.registered.leafGroups
            => wind'.children = wind.children /\ wind'.leaf = wind.leaf
       /\ ~wind.registered.undergrowth
            => wind'.grass = wind.grass /\ wind'.bush = wind.bush
       /\ wind'.windTime = wind.windTime + wind'.delta * WIND_SPEED
       /\ wind'.windGustTime \in {0, wind.windGustTime + wind'.delta}]_vars

(* A frame of 6 s animated a scene whose leaf has no captured originals:   *)
(* the trunk was swayed, the leaf was not.                                 *)
C22_UncapturedLeaf ==
  /\ WindRuns
  /\ wind.n = 1
  /\ wind.delta = 60
  /\ ~wind.leaf.originalRotation.set
  /\ ~wind.leaf.originalPosition.set
  /\ wind.children[1].original.set
  /\ wind.children[1].rotation # XYZ(0, 250000, 0)

(* The tree of the scene is whole: [trunk, branch_1 .. branch_n, leafGroup] *)
Deciduous ==
  /\ wind.registered.leafGroups
  /\ wind.tree.attached
  /\ Len(wind.children) > 2

(* C28: after a wind frame every branch of a deciduous tree has a captured *)
(* originalRotation, as the trunk has, and the leaf group, the last child, *)
(* has none and keeps its rotation.                                        *)
C28_EveryBranchSways ==
  (WindRuns /\ wind.n >= 1 /\ Deciduous) =>
    /\ \A k \in 1..(Len(wind.children) - 1) : wind.children[k].original.set
    /\ ~wind.children[Len(wind.children)].original.set
    /\ wind.children[Len(wind.children)].rotation = XYZ(0, 0, 0)

(* C29: at the end of world generation, before the first wind frame, the   *)
(* captured originalRotation of a leaf layer or cluster equals its         *)
(* rotation.                                                               *)
C29_OriginalIsConstructedPose ==
  (WindRuns /\ wind.n = 0 /\ wind.leaf.originalRotation.set) =>
    /\ wind.leaf.originalRotation.x = wind.leaf.rotation.x
    /\ wind.leaf.originalRotation.y = wind.leaf.rotation.y
    /\ wind.leaf.originalRotation.z = wind.leaf.rotation.z

(***************************************************************************)
(* Collision and clamp at the world's edge, over the calls of SpecPure      *)
(***************************************************************************)

Bounded == pure.op = "bounds" /\ pure.done

(* C23: when exactly one tree overlapped the position after the move, the  *)
(* position after the push-out and the clamp is at planar distance         *)
(* >= 1.0 + tree.radius from it (to the rounding of a hundredth), also for *)
(* a tree closer than that to the world's edge.                            *)
C23_ClearOfTreeAfterClamp ==
  (Bounded /\ Cardinality(Hits) = 1) =>
    LET t == pure.arg.ts[FirstHit]
        reach == CHARACTER_RADIUS + t.radius
        ox == pure.out.x - t.x
        oz == pure.out.z - t.z
    IN /\ ~IsNaN(pure.out.x) /\ ~IsNaN(pure.out.z)
       /\ (reach - 2) * (reach - 2) <= ox * ox + oz * oz

(***************************************************************************)
(* Flags and keys, over the events and frames of SpecKeys                   *)
(***************************************************************************)

MovementFlags(v) == StateFields(v) \ {"canJump"}

(* C24: in every variant, a movement flag that is true when a frame runs   *)
(* its movement block has one of its keys held down; a key released while  *)
(* the pointer is unlocked does not drive movement after the next lock.    *)
C24_FlagsFollowKeys ==
  [][(FrameStep /\ last'.processed) =>
       \A f \in MovementFlags(variant) :
         movementState[f] =>
           \E code \in held : FlagOf(variant, code) = f]_vars

(***************************************************************************)
(* The time step of a movement block                                        *)
(***************************************************************************)

(* C25: the delta a movement block uses is the time since the preceding    *)
(* frame callback: no time of earlier, skipped frames is pending when the  *)
(* block runs, so its delta is one frame interval.                         *)
C25_DeltaIsOneInterval ==
  [][(FrameStep /\ last'.processed) =>
       (elapsed = 0 /\ last'.delta \in DeltaSet)]_vars

(***************************************************************************)
(* The flags a frame reads                                                  *)
(***************************************************************************)

(* direction.x and direction.z as the variant's movement block builds them *)
direction(v, state) ==
  [x |-> IF v = "core" THEN 0
         ELSE Sub(Number(state, "moveRight"), Number(state, "moveLeft")),
   z |-> Sub(Number(state, "moveForward"), Number(state, "moveBackward"))]

NoFlagSet == \A f \in MovementFlags(variant) : ~movementState[f]

(* C26: at every processed frame of every variant, both direction         *)
(* components built from the flags are -1, 0 or 1, and a frame that finds  *)
(* no movement flag set leaves the horizontal position unchanged.           *)
C26_FlagsAreInitialisedBooleans ==
  [][(FrameStep /\ last'.processed) =>
       /\ direction(variant, movementState).x \in {-1, 0, 1}
       /\ direction(variant, movementState).z \in {-1, 0, 1}
       /\ NoFlagSet => (position'.x = position.x /\ position'.z = position.z)
     ]_vars

(***************************************************************************)
(* Jumps end, over the unbounded frames of SpecJump                         *)
(***************************************************************************)

(* A Space keydown has just set velocity.y to JUMP_FORCE *)
Jumped ==
  /\ last.kind = "none"
  /\ velocity.y = JUMP_FORCE * SCALE
  /\ ~movementState.canJump

(* A frame has just run its movement block *)
Processed == last.kind = "frame" /\ last.processed

(* A frame has ended in the Grounded state *)
GroundedFrame ==
  /\ Processed
  /\ position.y = standHeight(variant)
  /\ velocity.y = 0
  /\ movementState.canJump

(* A step that runs the movement block and changes the state: the frames  *)
(* of a character at rest repeat the same state                            *)
ProcessedStep == last'.kind = "frame" /\ last'.processed

(* C27: after a jump, if frames keep running their movement block with a   *)
(* positive delta, some later frame ends with the character at the stand   *)
(* height, velocity.y = 0 and canJump true, whatever keys go down and up.  *)
(* The proviso is the fairness of the claim: steps of the movement block   *)
(* occur again and again.                                                  *)
C27_JumpEndsGrounded ==
  ([]<><<ProcessedStep>>_vars) => (Jumped ~> GroundedFrame)

(* A frame that began in the air, above the stand height, has landed the   *)
(* character while a movement key is down                                  *)
C27_LandedAfterJump ==
  /\ GroundedFrame
  /\ last.landed
  /\ last.start.y > standHeight(variant)
  /\ movementState.moveForward

(***************************************************************************)
(* The lake, over the runs of SpecForest                                    *)
(***************************************************************************)

InWater(p) == isInWater(Vec(p.x, 0, p.z), waterSurface)

(* C30: no position createForest or createUndergrowth has accepted is in   *)
(* the water of createWater by isInWater, and a sampled point that is in   *)
(* the water is rejected.                                                  *)
C30_LakeExclusionAgrees ==
  forest.phase # "none" =>
    /\ \A k \in 1..Len(forest.trees) : ~InWater(forest.trees[k])
    /\ \A k \in 1..Len(forest.undergrowth) : ~InWater(forest.undergrowth[k])
    /\ InWater(forest.sample) => ~forest.accepted

(* A sample just inside the lake's edge has been rejected after a tree     *)
(* just outside it was accepted                                            *)
C30_EdgeOfLake ==
  /\ forest.phase = "undergrowth"
  /\ forest.sample = Point(16666, -8334)
  /\ InWater(forest.sample) /\ ~forest.accepted
  /\ \E k \in 1..Len(forest.trees) :
       forest.trees[k].x = 16667 /\ forest.trees[k].z = -25000

====
